---- MODULE Spec2Model ----
(***************************************************************************)
(* Model of netzob.Common.Models.Vocabulary.AbstractField: the field-tree  *)
(* node (identity, name, parent/children composition, the three function   *)
(* pipelines, symbol resolution and the memento pair).                     *)
(*                                                                         *)
(* Every method of AbstractField is one action.  Python values are         *)
(* encoded as follows: a node reference is a number of 1..NumNodes, a UUID *)
(* a number of 1..NumUUIDs, None is 0 and a value of a wrong type is       *)
(* WrongType; strings are TLA+ strings with NoneStr for None.              *)
(***************************************************************************)
EXTENDS Integers, Sequences, FiniteSets, TLC

\* ---------------------------------------------------------------- bounds
NumNodes == 4
MaxLen == 2

\* ------------------------------------------------------ values and types
None == 0
WrongType == 0 - 1
NoneStr == "<None>"
WrongTypeStr == "<not a str>"

Nodes == 1 .. NumNodes
\* Nodes on which the structural edits (children, parent) are exercised.
TreeNodes == {n \in Nodes : n <= 2}
\* The node whose private sequences and scalar attributes are exercised.
Focus == {n \in Nodes : n <= 1}

NumUUIDs == NumNodes + 1
UUIDs == 1 .. NumUUIDs
Names == {"A", "B"}
Kinds == {"Symbol", "Field"}

EncodingStages == {"e1", "e2"}
VisualizationStages == {"v1"}
TransformationStages == {"t1"}

RECURSIVE SeqsUpTo(_, _)
SeqsUpTo(S, k) ==
    IF k = 0 THEN {<<>>}
    ELSE LET shorter == SeqsUpTo(S, k - 1)
         IN  shorter \cup {Append(s, x) : s \in {t \in shorter : Len(t) = k - 1}, x \in S}

Range(s) == {s[i] : i \in DOMAIN s}

VARIABLES
    kind,                      \* class of each node: isinstance(n, Symbol) or not
    id,                        \* __id
    name,                      \* __name
    parent,                    \* __parent
    children,                  \* __children
    encodingFunctions,         \* __encodingFunctions
    visualizationFunctions,    \* __visualizationFunctions
    transformationFunctions,   \* __transformationFunctions
    memento,                   \* what the caller holds from storeInMemento
    nameAtStore,               \* history: the name when storeInMemento was called
    last                       \* history: the last call, its outcome and pre-state

vars == <<kind, id, name, parent, children, encodingFunctions,
          visualizationFunctions, transformationFunctions, memento,
          nameAtStore, last>>

\* ------------------------------------------------------------ TypedList
\* len / pop / extend of netzob.Common.Utils.TypedList (a typed mutable
\* sequence): pop removes the last element, extend appends in order.
pop(l) == SubSeq(l, 1, Len(l) - 1)
extend(l, values) == l \o values

\* typeCheck(T): a value passes when it is None or an instance of T.
typeCheck(v, none, T) == v = none \/ v \in T

\* ------------------------------------------------------------- outcomes
Returned(v) == [exc |-> "", val |-> v]
Raised(e) == [exc |-> e, val |-> None]

\* The node-local state of n, recorded before a call.
Snapshot(n) ==
    [id |-> id[n], name |-> name[n], parent |-> parent[n],
     children |-> children[n],
     encodingFunctions |-> encodingFunctions[n],
     visualizationFunctions |-> visualizationFunctions[n],
     transformationFunctions |-> transformationFunctions[n]]

Call(op, n, arg, ret) ==
    [op |-> op, self |-> n, arg |-> arg, ret |-> ret, pre |-> Snapshot(n)]

\* ---------------------------------------------------------- construction
\* AbstractField.__init__ for every node: a fresh uuid4, no name, no parent,
\* four empty typed lists.
Construct(k) ==
    /\ kind = k
    /\ id = [n \in Nodes |-> n]
    /\ name = [n \in Nodes |-> NoneStr]
    /\ parent = [n \in Nodes |-> None]
    /\ children = [n \in Nodes |-> <<>>]
    /\ encodingFunctions = [n \in Nodes |-> <<>>]
    /\ visualizationFunctions = [n \in Nodes |-> <<>>]
    /\ transformationFunctions = [n \in Nodes |-> <<>>]
    /\ memento = [n \in Nodes |-> "unset"]
    /\ nameAtStore = [n \in Nodes |-> NoneStr]
    /\ last = [op |-> "init", self |-> None, arg |-> None,
               ret |-> Returned(None), pre |-> None]

Init == \E k \in [Nodes -> Kinds] : Construct(k)

\* Every node constructed as a plain (non-Symbol) field.
InitFields == Construct([n \in Nodes |-> "Field"])

\* ------------------------------------------------------------ navigation
hasParent(n) == parent[n] # None

\* getSymbol recurses through the parent property.  A chain of more than
\* NumNodes hops revisits a node, so the recursion never ends: Python stops
\* it with its recursion-limit RuntimeError.
RECURSIVE getSymbol(_, _)
getSymbol(n, fuel) ==
    IF kind[n] = "Symbol" THEN Returned(n)
    ELSE IF hasParent(n)
         THEN IF fuel = 0 THEN Raised("RuntimeError")
              ELSE getSymbol(parent[n], fuel - 1)
         ELSE Raised("NoSymbolException")

GetSymbol(n) ==
    /\ last' = Call("getSymbol", n, None, getSymbol(n, NumNodes))
    /\ UNCHANGED <<kind, id, name, parent, children, encodingFunctions,
                   visualizationFunctions, transformationFunctions,
                   memento, nameAtStore>>

HasParent(n) ==
    /\ last' = Call("hasParent", n, None,
                    Returned(IF hasParent(n) THEN 1 ELSE 0))
    /\ UNCHANGED <<kind, id, name, parent, children, encodingFunctions,
                   visualizationFunctions, transformationFunctions,
                   memento, nameAtStore>>

\* parent setter: @typeCheck("SELF"), then the plain assignment.
parentSetter(cur, v) ==
    IF ~typeCheck(v, None, Nodes) THEN [ret |-> Raised("TypeError"), val |-> cur]
    ELSE [ret |-> Returned(None), val |-> v]

SetParent(n, v) ==
    LET r == parentSetter(parent[n], v)
    IN  /\ parent' = [parent EXCEPT ![n] = r.val]
        /\ last' = Call("setParent", n, v, r.ret)
        /\ UNCHANGED <<kind, id, name, children, encodingFunctions,
                       visualizationFunctions, transformationFunctions,
                       memento, nameAtStore>>

NextNav ==
    \/ \E n \in Nodes : GetSymbol(n)
    \/ \E n \in Nodes : HasParent(n)
    \/ \E n \in Nodes, v \in Nodes \cup {None, WrongType} : SetParent(n, v)

\* ------------------------------------------------- sequences: clear, set
\* while(len(l) > 0): l.pop()
\* A single pop where the loop is needed.
popOnce(l) == IF Len(l) > 0 THEN pop(l) ELSE l

RECURSIVE popAll(_)
popAll(l) == IF Len(l) > 0 THEN popAll(pop(l)) ELSE l

\* What a setter receives: a list of its own (val), or the live list that
\* the same property of node `of` returned (the getters return the stored
\* list itself, not a copy).
Fresh(s) == [live |-> FALSE, of |-> None, val |-> s]
Live(q) == [live |-> TRUE, of |-> q, val |-> <<>>]
Values(lists, a) == IF a.live THEN lists[a.of] ELSE a.val

\* self.clearX(); self.X.extend(values): the input is iterated after the
\* clear, on the lists as the clear left them.
\* The extend without the clear before it.
assignNoClear(self, lists, a) ==
    [lists EXCEPT ![self] = extend(@, Values(lists, a))]

assign(self, lists, a) ==
    LET cleared == [lists EXCEPT ![self] = popAll(@)]
    IN  [cleared EXCEPT ![self] = extend(@, Values(cleared, a))]

ListArgs(S) == {Fresh(s) : s \in SeqsUpTo(S, MaxLen)} \cup {Live(q) : q \in TreeNodes}

ClearChildren(n) ==
    /\ children' = [children EXCEPT ![n] = popAll(@)]
    /\ last' = Call("clearChildren", n, None, Returned(None))
    /\ UNCHANGED <<kind, id, name, parent, encodingFunctions,
                   visualizationFunctions, transformationFunctions,
                   memento, nameAtStore>>

ClearEncodingFunctions(n) ==
    /\ encodingFunctions' = [encodingFunctions EXCEPT ![n] = popAll(@)]
    /\ last' = Call("clearEncodingFunctions", n, None, Returned(None))
    /\ UNCHANGED <<kind, id, name, parent, children,
                   visualizationFunctions, transformationFunctions,
                   memento, nameAtStore>>

ClearVisualizationFunctions(n) ==
    /\ visualizationFunctions' = [visualizationFunctions EXCEPT ![n] = popAll(@)]
    /\ last' = Call("clearVisualizationFunctions", n, None, Returned(None))
    /\ UNCHANGED <<kind, id, name, parent, children, encodingFunctions,
                   transformationFunctions, memento, nameAtStore>>

ClearTransformationFunctions(n) ==
    /\ transformationFunctions' = [transformationFunctions EXCEPT ![n] = popAll(@)]
    /\ last' = Call("clearTransformationFunctions", n, None, Returned(None))
    /\ UNCHANGED <<kind, id, name, parent, children, encodingFunctions,
                   visualizationFunctions, memento, nameAtStore>>

SetChildren(n, a) ==
    /\ children' = assign(n, children, a)
    /\ last' = Call("setChildren", n, a, Returned(None))
    /\ UNCHANGED <<kind, id, name, parent, encodingFunctions,
                   visualizationFunctions, transformationFunctions,
                   memento, nameAtStore>>

SetEncodingFunctions(n, a) ==
    /\ encodingFunctions' = assign(n, encodingFunctions, a)
    /\ last' = Call("setEncodingFunctions", n, a, Returned(None))
    /\ UNCHANGED <<kind, id, name, parent, children,
                   visualizationFunctions, transformationFunctions,
                   memento, nameAtStore>>

SetVisualizationFunctions(n, a) ==
    /\ visualizationFunctions' = assign(n, visualizationFunctions, a)
    /\ last' = Call("setVisualizationFunctions", n, a, Returned(None))
    /\ UNCHANGED <<kind, id, name, parent, children, encodingFunctions,
                   transformationFunctions, memento, nameAtStore>>

SetTransformationFunctions(n, a) ==
    /\ transformationFunctions' = assign(n, transformationFunctions, a)
    /\ last' = Call("setTransformationFunctions", n, a, Returned(None))
    /\ UNCHANGED <<kind, id, name, parent, children, encodingFunctions,
                   visualizationFunctions, memento, nameAtStore>>

\* ------------------------------------------------- id, name, memento pair
\* id setter: @typeCheck(uuid.UUID), then the None test, then the assignment.
\* The id setter without its None test.
idSetterNoNoneTest(cur, v) ==
    IF ~typeCheck(v, None, UUIDs) THEN [ret |-> Raised("TypeError"), val |-> cur]
    ELSE [ret |-> Returned(None), val |-> v]

idSetter(cur, v) ==
    IF ~typeCheck(v, None, UUIDs) THEN [ret |-> Raised("TypeError"), val |-> cur]
    ELSE IF v = None THEN [ret |-> Raised("ValueError"), val |-> cur]
    ELSE [ret |-> Returned(None), val |-> v]

SetId(n, v) ==
    LET r == idSetter(id[n], v)
    IN  /\ id' = [id EXCEPT ![n] = r.val]
        /\ last' = Call("setId", n, v, r.ret)
        /\ UNCHANGED <<kind, name, parent, children, encodingFunctions,
                       visualizationFunctions, transformationFunctions,
                       memento, nameAtStore>>

\* name setter: @typeCheck(str), then the assignment.
nameSetter(cur, v) ==
    IF ~typeCheck(v, NoneStr, Names) THEN [ret |-> Raised("TypeError"), val |-> cur]
    ELSE [ret |-> Returned(None), val |-> v]

SetName(n, v) ==
    LET r == nameSetter(name[n], v)
    IN  /\ name' = [name EXCEPT ![n] = r.val]
        /\ last' = Call("setName", n, v, r.ret)
        /\ UNCHANGED <<kind, id, parent, children, encodingFunctions,
                       visualizationFunctions, transformationFunctions,
                       memento, nameAtStore>>

\* storeInMemento: `pass`, so the caller receives None.
storeInMemento(n) == "None"
\* restoreFromMemento: `pass`, the node keeps the state it has.
restoreFromMemento(cur, m) == cur

StoreInMemento(n) ==
    /\ memento' = [memento EXCEPT ![n] = storeInMemento(n)]
    /\ nameAtStore' = [nameAtStore EXCEPT ![n] = name[n]]
    /\ last' = Call("storeInMemento", n, None, Returned(None))
    /\ UNCHANGED <<kind, id, name, parent, children, encodingFunctions,
                   visualizationFunctions, transformationFunctions>>

\* The caller hands back the memento it got from storeInMemento.
RestoreFromMemento(n) ==
    /\ memento[n] # "unset"
    /\ name' = [name EXCEPT ![n] = restoreFromMemento(@, memento[n])]
    /\ last' = Call("restoreFromMemento", n, None, Returned(None))
    /\ UNCHANGED <<kind, id, parent, children, encodingFunctions,
                   visualizationFunctions, transformationFunctions,
                   memento, nameAtStore>>

\* --------------------------------------------------------- specifications
NextTree ==
    \/ \E n \in TreeNodes, a \in ListArgs(TreeNodes) : SetChildren(n, a)
    \/ \E n \in TreeNodes : ClearChildren(n)
    \/ \E n \in TreeNodes, v \in TreeNodes \cup {None, WrongType} : SetParent(n, v)

NextSeq ==
    \/ \E n \in Focus, a \in ListArgs(TreeNodes) : SetChildren(n, a)
    \/ \E n \in Focus, a \in ListArgs(EncodingStages) : SetEncodingFunctions(n, a)
    \/ \E n \in Focus, a \in ListArgs(VisualizationStages) : SetVisualizationFunctions(n, a)
    \/ \E n \in Focus, a \in ListArgs(TransformationStages) : SetTransformationFunctions(n, a)
    \/ \E n \in Focus : ClearChildren(n)
    \/ \E n \in Focus : ClearEncodingFunctions(n)
    \/ \E n \in Focus : ClearVisualizationFunctions(n)
    \/ \E n \in Focus : ClearTransformationFunctions(n)

NextNode ==
    \/ \E n \in Focus, v \in UUIDs \cup {None, WrongType} : SetId(n, v)
    \/ \E n \in Focus, v \in Names \cup {NoneStr, WrongTypeStr} : SetName(n, v)
    \/ \E n \in Focus : StoreInMemento(n)
    \/ \E n \in Focus : RestoreFromMemento(n)

Next == NextNav \/ NextTree \/ NextSeq \/ NextNode

\* Symbol resolution over arbitrary parent assignments.
SpecNav == Init /\ [][NextNav]_vars
\* Structural edits on the tree nodes.
SpecTree == InitFields /\ [][NextTree]_vars
\* The four owned sequences of one node.
SpecSeq == InitFields /\ [][NextSeq]_vars
\* The scalar attributes and the memento pair of one node.
SpecNode == InitFields /\ [][NextNode]_vars
\* Every operation on every node.
Spec == Init /\ [][Next]_vars

\* ================================================================ claims
\* The parentless node that the parent chain of n ends at, None when the
\* chain never ends (it revisits a node).
RECURSIVE rootOf(_, _)
rootOf(n, fuel) ==
    IF parent[n] = None THEN n
    ELSE IF fuel = 0 THEN None
    ELSE rootOf(parent[n], fuel - 1)

Root(n) == rootOf(n, NumNodes)

\* C1: immediately after p.children = s, every node c of p.children has
\* c.parent = p.
C1_ChildrenSetReparents ==
    last.op = "setChildren" =>
        \A c \in Range(children[last.self]) : parent[c] = last.self

\* C2: in every reachable state each node is in the children sequence of at
\* most one node.
C2_SingleOwnership ==
    \A c \in Nodes : Cardinality({p \in Nodes : c \in Range(children[p])}) <= 1

\* C3: when the parent chain of n ends at a parentless Symbol r, getSymbol
\* on n returns exactly r, whatever the variants of n and of the nodes in
\* between.
C3_GetSymbolReturnsRoot ==
    (/\ last.op = "getSymbol"
     /\ Root(last.self) # None
     /\ kind[Root(last.self)] = "Symbol")
    => last.ret = Returned(Root(last.self))

\* C4: when the parent chain of n ends at a parentless node that is not a
\* Symbol, getSymbol on n raises NoSymbolException and never returns a node.
C4_GetSymbolRaisesNoSymbol ==
    (/\ last.op = "getSymbol"
     /\ Root(last.self) # None
     /\ kind[Root(last.self)] # "Symbol")
    => last.ret = Raised("NoSymbolException")

\* C5: following parent pointers from any node never revisits a node, and
\* every getSymbol call ends with a Symbol or with NoSymbolException.
C5_AcyclicAndTerminates ==
    /\ \A n \in Nodes : Root(n) # None
    /\ last.op = "getSymbol" =>
          \/ last.ret.exc = "" /\ last.ret.val \in Nodes /\ kind[last.ret.val] = "Symbol"
          \/ last.ret = Raised("NoSymbolException")

\* C6: after restoreFromMemento(m) the name of the node is the name it had
\* when m was taken with storeInMemento.
C6_MementoRestoresName ==
    last.op = "restoreFromMemento" => name[last.self] = nameAtStore[last.self]

PipelineSetters ==
    {"setEncodingFunctions", "setVisualizationFunctions", "setTransformationFunctions"}
SequenceSetters == PipelineSetters \cup {"setChildren"}
SequenceClears ==
    {"clearChildren", "clearEncodingFunctions", "clearVisualizationFunctions",
     "clearTransformationFunctions"}

\* The four sequences node n owns, by the name of the property.
Owned(n) ==
    [children |-> children[n],
     encodingFunctions |-> encodingFunctions[n],
     visualizationFunctions |-> visualizationFunctions[n],
     transformationFunctions |-> transformationFunctions[n]]

Properties == {"children", "encodingFunctions", "visualizationFunctions",
               "transformationFunctions"}

\* The property a setter or a clear operation is about.
Target(op) ==
    CASE op \in {"setChildren", "clearChildren"} -> "children"
      [] op \in {"setEncodingFunctions", "clearEncodingFunctions"} -> "encodingFunctions"
      [] op \in {"setVisualizationFunctions", "clearVisualizationFunctions"} -> "visualizationFunctions"
      [] op \in {"setTransformationFunctions", "clearTransformationFunctions"} -> "transformationFunctions"

\* The call passed the very list the same property of the same node returned.
SelfAssignment == last.arg.live /\ last.arg.of = last.self

\* The elements of the sequence that was passed, as they were at the call.
Passed ==
    IF last.arg.live THEN Owned(last.arg.of)[Target(last.op)] ELSE last.arg.val

\* C7: after a pipeline is assigned a sequence s other than its own stored
\* one, the pipeline reads back as exactly s (empty when s is empty), and
\* the other two pipelines and the children are as before the call.
C7_PipelineSetReadBack ==
    (last.op \in PipelineSetters /\ ~SelfAssignment) =>
        /\ Owned(last.self)[Target(last.op)] = Passed
        /\ \A f \in Properties \ {Target(last.op)} :
              Owned(last.self)[f] = last.pre[f]

C7_Witness ==
    /\ last.op = "setEncodingFunctions"
    /\ ~last.arg.live
    /\ Len(last.arg.val) = 2
    /\ last.arg.val[1] # last.arg.val[2]
    /\ last.pre.encodingFunctions # <<>>
    /\ last.pre.encodingFunctions[1] # last.arg.val[1]
    /\ last.pre.visualizationFunctions # <<>>
    /\ encodingFunctions[last.self] = last.arg.val

\* C8: the id of every node is never None, and an id assignment of None or
\* of a value that is no UUID raises and leaves the id as it was.
C8_IdNeverNone ==
    /\ \A n \in Nodes : id[n] # None /\ id[n] \in UUIDs
    /\ (last.op = "setId" /\ last.arg \notin UUIDs) =>
          /\ last.ret.exc \in {"TypeError", "ValueError"}
          /\ id[last.self] = last.pre.id

C8_Witness ==
    /\ last.op = "setId"
    /\ last.arg = None
    /\ last.ret.exc = "ValueError"
    /\ id[last.self] = last.pre.id
    /\ id[last.self] # last.self

\* C9: each clear operation ends with its sequence empty, whatever its
\* length before (zero included), raises nothing and leaves the other three
\* sequences of the node as they were.
C9_ClearEmpties ==
    last.op \in SequenceClears =>
        /\ last.ret = Returned(None)
        /\ Owned(last.self)[Target(last.op)] = <<>>
        /\ \A f \in Properties \ {Target(last.op)} :
              Owned(last.self)[f] = last.pre[f]

C9_Witness ==
    /\ last.op = "clearEncodingFunctions"
    /\ Len(last.pre.encodingFunctions) >= 2
    /\ encodingFunctions[last.self] = <<>>
    /\ children[last.self] # <<>>
    /\ children[last.self] = last.pre.children

\* C10: assigning to a sequence property the very list read from the same
\* property of the same node leaves the sequence with the elements it had.
C10_SelfAssignmentPreserves ==
    (last.op \in SequenceSetters /\ SelfAssignment) =>
        Owned(last.self)[Target(last.op)] = last.pre[Target(last.op)]

====
